---- MODULE Spec2Model ----
(***************************************************************************)
(* Model of d4lf's profile schema (src/config/models.py) and of the        *)
(* importer helpers that serialize profiles (src/gui/importer/common.py).  *)
(*                                                                         *)
(* A profile document is a YAML value.  The pydantic model classes are     *)
(* modelled as validation operators from a YAML value to a result          *)
(* [ok, errors, m]: the "before" model validator, then per-field type      *)
(* validation and field validators (run only on supplied, well-typed       *)
(* fields), then the "after" model validator.  Each validated model        *)
(* carries fields_set, pydantic's record of the explicitly set fields.     *)
(***************************************************************************)
EXTENDS Integers, Sequences, FiniteSets, TLC

VARIABLES
    kind,          \* the model class the document is validated against
    data,          \* the raw document (a YAML value)
    pc,            \* position in the load / save / reload pipeline
    result,        \* validation result of data
    full_dump,     \* IniConfigLoader().general.full_dump
    file_name,     \* save_as_profile: the sanitized file name
    yaml,          \* the serialized document
    result2,       \* validation result of yaml
    pool,          \* evaluation: the validated AffixFilterCountModel
    item_affixes,  \* evaluation: the candidate affix list of the item
    responses,     \* get_with_retry: status codes of the requests issued, in order
    outcome,       \* get_with_retry / wrapper: how the call ended
    inject_webdriver, \* retry_importer: the decorator's flag
    args,          \* wrapper: positional arguments
    kwargs,        \* wrapper: keyword arguments
    created,       \* wrapper: the driver setup_webdriver() returned to it
    calls,         \* wrapper: the calls of wrap_function made, in order
    quit_calls,    \* the drivers quit() was called on, in order
    profiles,      \* decide: the active profiles, in the configured order
    snapshot,      \* decide: the item snapshot
    cursor,        \* decide: index, in the search order, of the rule to try next
    evaluated,     \* decide: the (profile, rule) positions evaluated, in order
    decision       \* decide: the decision

\* state of the importer helpers and of the priority resolver
importer == <<responses, outcome, inject_webdriver, args, kwargs, created, calls, quit_calls>>
resolver == <<profiles, snapshot, cursor, evaluated, decision>>
\* state of the validation / serialization pipeline
pipeline == <<kind, data, result, full_dump, file_name, yaml, result2, pool, item_affixes>>

vars == <<kind, data, pc, result, full_dump, file_name, yaml, result2, pool, item_affixes,
          responses, outcome, inject_webdriver, args, kwargs, created, calls, quit_calls,
          profiles, snapshot, cursor, evaluated, decision>>

----------------------------------------------------------------------------
(* Bounds of the model.                                                    *)

MaxListLen == 4        \* longest shorthand list fed to parse_data
MaxRules == 2          \* longest count / blacklist / whitelist list
MaxItemAffixes == 2    \* longest candidate affix list of an item

----------------------------------------------------------------------------
(* YAML values.  One record shape for every value so that values of        *)
(* different kinds can be compared.                                        *)

EmptyDict == << >>

Str(s) == [k |-> "str", s |-> s, n |-> 0, items |-> << >>, d |-> EmptyDict]
Num(n) == [k |-> "num", s |-> "", n |-> n, items |-> << >>, d |-> EmptyDict]
NoneV == [k |-> "none", s |-> "", n |-> 0, items |-> << >>, d |-> EmptyDict]
List(items) == [k |-> "list", s |-> "", n |-> 0, items |-> items, d |-> EmptyDict]
Dict(d) == [k |-> "dict", s |-> "", n |-> 0, items |-> << >>, d |-> d]
\* what dict.get(key) finds when the key is missing
Absent == [k |-> "absent", s |-> "", n |-> 0, items |-> << >>, d |-> EmptyDict]

Keys(v) == IF v.k = "dict" THEN DOMAIN v.d ELSE {}
Get(v, key) == IF key \in Keys(v) THEN v.d[key] ELSE Absent

\* the dict holding exactly the entries of f that are present
DictOf(f) == Dict([key \in {x \in DOMAIN f : f[x] # Absent} |-> f[key]])

SeqsUpTo(S, n) == UNION {[1..m -> S] : m \in 0..n}

RECURSIVE Concat(_)
Concat(ss) == IF ss = << >> THEN << >> ELSE Head(ss) \o Concat(Tail(ss))

----------------------------------------------------------------------------
(* Validation results and errors.                                          *)

Err(loc, msg, names) == [loc |-> loc, msg |-> msg, names |-> names]
Null == [fields_set |-> {}]
Fail(errors) == [ok |-> FALSE, errors |-> errors, m |-> Null]
Ok(m) == [ok |-> TRUE, errors |-> << >>, m |-> m]

\* sys.maxsize.  The program's value is 2^63 - 1; the model checker's integers
\* are 32 bits wide, so the largest of them stands for it.  It is only ever
\* compared, and every other number of the model is far below it.
MaxSize == 2147483647

----------------------------------------------------------------------------
(* The Catalog: Dataloader().affix_dict, .aspect_unique_dict and            *)
(* .affix_sigil_dict, reduced to their key sets.                            *)

affix_dict == {"crit", "vuln"}
aspect_unique_dict == {"aspect_x"}
affix_sigil_dict == {"cellars", "lightning", "cold"}

----------------------------------------------------------------------------
(* pydantic's scalar coercions (lax mode).                                  *)

\* the strings that int() / float() accept, with their values
NumericStr == ("0" :> 0) @@ ("7" :> 7)

\* str: only a string is a string (numbers are not coerced)
IsStr(v) == v.k = "str"

\* int and float: a number, or a string that parses as one
IsNumber(v) == v.k = "num" \/ (v.k = "str" /\ v.s \in DOMAIN NumericStr)
ToNumber(v) == IF v.k = "num" THEN v.n ELSE NumericStr[v.s]

\* ComparisonType(enum.StrEnum)
ComparisonType == {"larger", "smaller"}

----------------------------------------------------------------------------
(* class AffixAspectFilterModel and its subclasses AffixFilterModel and    *)
(* AspectUniqueFilterModel.                                                 *)

\* Mutant: a list longer than 3 is accepted and its tail ignored.
parse_data_NoUpperLimit(d) ==
    IF d.k = "dict" THEN [ok |-> TRUE, v |-> d, msg |-> ""]
    ELSE IF d.k = "str" THEN [ok |-> TRUE, v |-> Dict([x \in {"name"} |-> d]), msg |-> ""]
    ELSE IF d.k = "list" THEN
        IF Len(d.items) = 0
        THEN [ok |-> FALSE, v |-> NoneV, msg |-> "list, cannot be empty or larger than 3 items"]
        ELSE [ok |-> TRUE,
              v |-> Dict([x \in {y \in {"name", "value", "comparison"} :
                                    \/ (y = "name" /\ Len(d.items) >= 1)
                                    \/ (y = "value" /\ Len(d.items) >= 2)
                                    \/ (y = "comparison" /\ Len(d.items) >= 3)}
                             |-> IF x = "name" THEN d.items[1]
                                 ELSE IF x = "value" THEN d.items[2]
                                 ELSE d.items[3]]),
              msg |-> ""]
    ELSE [ok |-> FALSE, v |-> NoneV, msg |-> "must be str or list"]

\* AffixAspectFilterModel.parse_data (model_validator, mode="before")
parse_data(d) ==
    IF d.k = "dict" THEN [ok |-> TRUE, v |-> d, msg |-> ""]
    ELSE IF d.k = "str" THEN [ok |-> TRUE, v |-> Dict([x \in {"name"} |-> d]), msg |-> ""]
    ELSE IF d.k = "list" THEN
        IF Len(d.items) = 0 \/ Len(d.items) > 3
        THEN [ok |-> FALSE, v |-> NoneV, msg |-> "list, cannot be empty or larger than 3 items"]
        ELSE [ok |-> TRUE,
              v |-> Dict([x \in {y \in {"name", "value", "comparison"} :
                                    \/ (y = "name" /\ Len(d.items) >= 1)
                                    \/ (y = "value" /\ Len(d.items) >= 2)
                                    \/ (y = "comparison" /\ Len(d.items) = 3)}
                             |-> IF x = "name" THEN d.items[1]
                                 ELSE IF x = "value" THEN d.items[2]
                                 ELSE d.items[3]]),
              msg |-> ""]
    ELSE [ok |-> FALSE, v |-> NoneV, msg |-> "must be str or list"]

\* AffixFilterModel.name_must_exist / AspectUniqueFilterModel.name_must_exist:
\* the errors the field validator raises for name against the catalog set
name_must_exist(name, catalog) ==
    IF name \notin catalog
    THEN << Err("name", "affix does not exist", <<name>>) >>
    ELSE << >>

AffixAspectFields == {"name", "value", "comparison"}

\* errors of the extra="forbid" config: one per unknown key
ExtraErrors(v, fields) ==
    IF Keys(v) \subseteq fields THEN << >>
    ELSE << Err("extra", "extra_forbidden", << >>) >>

\* a validation that ends with the field errors, or with the model
Finish(errors, m) == IF errors # << >> THEN Fail(errors) ELSE Ok(m)

\* the same, with a model validator (mode="after") run on the model
FinishWith(errors, m, After(_)) == IF errors # << >> THEN Fail(errors) ELSE After(m)

\* a required str field: missing, not a string, or the errors of its validator
StrFieldErrors(x, key, validator_errors) ==
    IF x = Absent THEN << Err(key, "missing", << >>) >>
    ELSE IF ~IsStr(x) THEN << Err(key, "string_type", << >>) >>
    ELSE validator_errors

\* a field of an enum type with a default
EnumErrors(x, key, members) ==
    IF x = Absent \/ (IsStr(x) /\ x.s \in members) THEN << >>
    ELSE << Err(key, "enum", << >>) >>

EnumValue(x, default) == IF x = Absent THEN default ELSE x.s

\* value: float | None = None
FloatOrNoneErrors(x, key) ==
    IF x = Absent \/ x = NoneV \/ IsNumber(x) THEN << >>
    ELSE << Err(key, "float_parsing", << >>) >>

FloatOrNoneValue(x) == IF x \in {Absent, NoneV} THEN NoneV ELSE Num(ToNumber(x))

\* the fields of AffixAspectFilterModel, validated in declaration order
AffixAspectFieldErrors(v, catalog) ==
    StrFieldErrors(Get(v, "name"), "name", name_must_exist(Get(v, "name").s, catalog))
    \o FloatOrNoneErrors(Get(v, "value"), "value")
    \o EnumErrors(Get(v, "comparison"), "comparison", ComparisonType)
    \o ExtraErrors(v, AffixAspectFields)

\* the model behind the "before" validator, whose outcome is pre
AffixAspectFromParsed(pre, catalog) ==
    IF ~pre.ok THEN Fail(<< Err("", pre.msg, << >>) >>)
    ELSE Finish(AffixAspectFieldErrors(pre.v, catalog),
                [name |-> Get(pre.v, "name").s,
                 value |-> FloatOrNoneValue(Get(pre.v, "value")),
                 comparison |-> EnumValue(Get(pre.v, "comparison"), "larger"),
                 fields_set |-> Keys(pre.v)])

\* AffixAspectFilterModel(...) validated against one catalog set
AffixAspectFilterModel(d, catalog) == AffixAspectFromParsed(parse_data(d), catalog)

AffixFilterModel(d) == AffixAspectFilterModel(d, affix_dict)

AspectUniqueFilterModel(d) == AffixAspectFilterModel(d, aspect_unique_dict)

----------------------------------------------------------------------------
(* Field helpers: how pydantic validates one field of a mapping.  A field   *)
(* that is absent takes its default and no validator runs on it.            *)

\* an int field with a field validator; Accepts(n) is FALSE when it raises
IntErrors(v, key, Accepts(_)) ==
    LET x == Get(v, key) IN
    IF x = Absent THEN << >>
    ELSE IF ~IsNumber(x) THEN << Err(key, "int_parsing", << >>) >>
    ELSE IF ~Accepts(ToNumber(x)) THEN << Err(key, "value_error", << >>) >>
    ELSE << >>

IntValue(v, key, default) ==
    IF Get(v, key) = Absent THEN default ELSE ToNumber(Get(v, key))

\* a field list[Model]: the results of validating the entries,
ListResults(x, Model(_)) ==
    IF x.k = "list" THEN [i \in 1..Len(x.items) |-> Model(x.items[i])] ELSE << >>

\* and the field's errors and value [errors, m] made of them
ListOfResults(x, key, results) ==
    IF x = Absent THEN [errors |-> << >>, m |-> << >>]
    ELSE IF x.k # "list" THEN [errors |-> << Err(key, "list_type", << >>) >>, m |-> << >>]
    ELSE [errors |-> Concat([i \in 1..Len(results) |-> results[i].errors]),
          m |-> [i \in 1..Len(results) |-> results[i].m]]

ListField(v, key, Model(_)) ==
    ListOfResults(Get(v, key), key, ListResults(Get(v, key), Model))

\* src.config.helper.check_greater_than_zero: TRUE when it returns v,
\* FALSE when it raises
check_greater_than_zero(v) == v >= 0

----------------------------------------------------------------------------
(* class AffixFilterCountModel                                              *)

AffixFilterCountFields == {"count", "maxCount", "minCount", "minGreaterAffixCount"}

\* AffixFilterCountModel.count_validator (minCount, minGreaterAffixCount, maxCount)
AffixFilterCount_count_validator(v) == check_greater_than_zero(v)

\* Mutant: the inference sets minCount only and leaves maxCount at its default.
AffixFilterCount_model_validator_MinOnly(self) ==
    LET inferred == "minCount" \notin self.fields_set /\ "maxCount" \notin self.fields_set
        m == IF inferred THEN [self EXCEPT !.minCount = Len(self.count)] ELSE self
    IN  IF m.minCount > m.maxCount
        THEN Fail(<< Err("", "minCount must be smaller than maxCount", << >>) >>)
        ELSE IF Len(m.count) = 0
        THEN Fail(<< Err("", "count must not be empty", << >>) >>)
        ELSE Ok(m)

\* Mutant: the check minCount > maxCount is missing.
AffixFilterCount_model_validator_NoOrder(self) ==
    LET inferred == "minCount" \notin self.fields_set /\ "maxCount" \notin self.fields_set
        m == IF inferred
             THEN [self EXCEPT !.minCount = Len(self.count), !.maxCount = Len(self.count)]
             ELSE self
    IN  IF Len(m.count) = 0
        THEN Fail(<< Err("", "count must not be empty", << >>) >>)
        ELSE Ok(m)

\* Mutant: the check for an empty count list is missing.
AffixFilterCount_model_validator_NoEmpty(self) ==
    LET inferred == "minCount" \notin self.fields_set /\ "maxCount" \notin self.fields_set
        m == IF inferred
             THEN [self EXCEPT !.minCount = Len(self.count), !.maxCount = Len(self.count)]
             ELSE self
    IN  IF m.minCount > m.maxCount
        THEN Fail(<< Err("", "minCount must be smaller than maxCount", << >>) >>)
        ELSE Ok(m)

\* Mutant: minCount and maxCount are not removed from model_fields_set after
\* the inference.
AffixFilterCount_model_validator_KeepSet(self) ==
    LET inferred == "minCount" \notin self.fields_set /\ "maxCount" \notin self.fields_set
        m == IF inferred
             THEN [self EXCEPT !.minCount = Len(self.count),
                               !.maxCount = Len(self.count),
                               !.fields_set = self.fields_set \cup {"minCount", "maxCount"}]
             ELSE self
    IN  IF m.minCount > m.maxCount
        THEN Fail(<< Err("", "minCount must be smaller than maxCount", << >>) >>)
        ELSE IF Len(m.count) = 0
        THEN Fail(<< Err("", "count must not be empty", << >>) >>)
        ELSE Ok(m)

\* Mutant: the bounds are inferred when either of them is missing (or for and).
AffixFilterCount_model_validator_InferEither(self) ==
    LET inferred == "minCount" \notin self.fields_set \/ "maxCount" \notin self.fields_set
        m == IF inferred
             THEN [self EXCEPT !.minCount = Len(self.count),
                               !.maxCount = Len(self.count),
                               !.fields_set = self.fields_set \ {"minCount", "maxCount"}]
             ELSE self
    IN  IF m.minCount > m.maxCount
        THEN Fail(<< Err("", "minCount must be smaller than maxCount", << >>) >>)
        ELSE IF Len(m.count) = 0
        THEN Fail(<< Err("", "count must not be empty", << >>) >>)
        ELSE Ok(m)

\* AffixFilterCountModel.model_validator (mode="after"), on the model built
\* from the validated fields
AffixFilterCount_model_validator(self) ==
    LET inferred == "minCount" \notin self.fields_set /\ "maxCount" \notin self.fields_set
        m == IF inferred
             THEN [self EXCEPT !.minCount = Len(self.count),
                               !.maxCount = Len(self.count),
                               !.fields_set = (self.fields_set \cup {"minCount", "maxCount"})
                                              \ {"minCount", "maxCount"}]
             ELSE self
    IN  IF m.minCount > m.maxCount
        THEN Fail(<< Err("", "minCount must be smaller than maxCount", << >>) >>)
        ELSE IF Len(m.count) = 0
        THEN Fail(<< Err("", "count must not be empty", << >>) >>)
        ELSE Ok(m)

\* the model made of the validated fields; count is the field [errors, m]
AffixFilterCountFromFields(v, count) ==
    FinishWith(count.errors
               \o IntErrors(v, "maxCount", AffixFilterCount_count_validator)
               \o IntErrors(v, "minCount", AffixFilterCount_count_validator)
               \o IntErrors(v, "minGreaterAffixCount", AffixFilterCount_count_validator)
               \o ExtraErrors(v, AffixFilterCountFields),
               [count |-> count.m,
                maxCount |-> IntValue(v, "maxCount", MaxSize),
                minCount |-> IntValue(v, "minCount", 0),
                minGreaterAffixCount |-> IntValue(v, "minGreaterAffixCount", 0),
                fields_set |-> Keys(v)],
               AffixFilterCount_model_validator)

AffixFilterCountModel(v) ==
    IF v.k # "dict" THEN Fail(<< Err("", "model_type", << >>) >>)
    ELSE AffixFilterCountFromFields(v, ListField(v, "count", AffixFilterModel))

----------------------------------------------------------------------------
(* class ItemFilterModel and DynamicItemFilterModel                         *)

\* src.item.data.item_type.ItemType, reduced to three of its values
ItemType == {"helm", "boots", "ring"}

\* _parse_item_type: a bare string becomes a one-element list
_parse_item_type(d) == IF d.k = "str" THEN List(<<d>>) ELSE d

\* the field itemType: list[ItemType] behind its "before" validator
ItemTypeErrorsOf(x, l) ==
    IF x = Absent THEN << >>
    ELSE IF l.k # "list" THEN << Err("itemType", "list_type", << >>) >>
    ELSE IF \E i \in 1..Len(l.items) : ~(IsStr(l.items[i]) /\ l.items[i].s \in ItemType)
    THEN << Err("itemType", "enum", << >>) >>
    ELSE << >>

ItemTypeErrors(v) == ItemTypeErrorsOf(Get(v, "itemType"), _parse_item_type(Get(v, "itemType")))

ItemTypeValueOf(x, l) ==
    IF x = Absent THEN << >> ELSE [i \in 1..Len(l.items) |-> l.items[i].s]

ItemTypeValue(v) == ItemTypeValueOf(Get(v, "itemType"), _parse_item_type(Get(v, "itemType")))

ItemFilterFields == {"affixPool", "inherentPool", "itemType", "minGreaterAffixCount", "minPower"}

\* ItemFilterModel.check_min_power
ItemFilter_check_min_power(v) == check_greater_than_zero(v)

\* ItemFilterModel.min_greater_affix_in_range
min_greater_affix_in_range(v) == 0 <= v /\ v <= 3

\* the model made of the validated fields
ItemFilterFromFields(v, affixPool, inherentPool) ==
    Finish(affixPool.errors
           \o inherentPool.errors
           \o ItemTypeErrors(v)
           \o IntErrors(v, "minGreaterAffixCount", min_greater_affix_in_range)
           \o IntErrors(v, "minPower", ItemFilter_check_min_power)
           \o ExtraErrors(v, ItemFilterFields),
           [affixPool |-> affixPool.m,
            inherentPool |-> inherentPool.m,
            itemType |-> ItemTypeValue(v),
            minGreaterAffixCount |-> IntValue(v, "minGreaterAffixCount", 0),
            minPower |-> IntValue(v, "minPower", 0),
            fields_set |-> Keys(v)])

ItemFilterModel(v) ==
    IF v.k # "dict" THEN Fail(<< Err("", "model_type", << >>) >>)
    ELSE ItemFilterFromFields(v, ListField(v, "affixPool", AffixFilterCountModel),
                                 ListField(v, "inherentPool", AffixFilterCountModel))

\* the root mapping made of the results of its values
DynamicItemFilterFromResults(results) ==
    IF \E key \in DOMAIN results : ~results[key].ok
    THEN Fail(results[CHOOSE key \in DOMAIN results : ~results[key].ok].errors)
    ELSE Ok([root |-> [key \in DOMAIN results |-> results[key].m],
             fields_set |-> {"root"}])

\* DynamicItemFilterModel = RootModel[dict[str, ItemFilterModel]]
DynamicItemFilterModel(v) ==
    IF v.k # "dict" THEN Fail(<< Err("", "dict_type", << >>) >>)
    ELSE DynamicItemFilterFromResults([key \in Keys(v) |-> ItemFilterModel(v.d[key])])

----------------------------------------------------------------------------
(* class SigilConditionModel and SigilFilterModel                           *)

\* Mutant: the qualifiers start at the name (data[0:] for data[1:]).
SigilCondition_parse_data_OffByOne(d) ==
    IF d.k = "dict" THEN [ok |-> TRUE, v |-> d, msg |-> ""]
    ELSE IF d.k = "str" THEN [ok |-> TRUE, v |-> Dict([x \in {"name"} |-> d]), msg |-> ""]
    ELSE IF d.k = "list" THEN
        IF Len(d.items) = 0
        THEN [ok |-> FALSE, v |-> NoneV, msg |-> "list cannot be empty"]
        ELSE [ok |-> TRUE,
              v |-> Dict([x \in {y \in {"name", "condition"} :
                                    \/ (y = "name" /\ Len(d.items) >= 1)
                                    \/ (y = "condition" /\ Len(d.items) >= 2)}
                             |-> IF x = "name" THEN d.items[1]
                                 ELSE List(d.items)]),
              msg |-> ""]
    ELSE [ok |-> FALSE, v |-> NoneV, msg |-> "must be str or list"]

\* SigilConditionModel.parse_data (model_validator, mode="before")
SigilCondition_parse_data(d) ==
    IF d.k = "dict" THEN [ok |-> TRUE, v |-> d, msg |-> ""]
    ELSE IF d.k = "str" THEN [ok |-> TRUE, v |-> Dict([x \in {"name"} |-> d]), msg |-> ""]
    ELSE IF d.k = "list" THEN
        IF Len(d.items) = 0
        THEN [ok |-> FALSE, v |-> NoneV, msg |-> "list cannot be empty"]
        ELSE [ok |-> TRUE,
              v |-> Dict([x \in {y \in {"name", "condition"} :
                                    \/ (y = "name" /\ Len(d.items) >= 1)
                                    \/ (y = "condition" /\ Len(d.items) >= 2)}
                             |-> IF x = "name" THEN d.items[1]
                                 ELSE List(Tail(d.items))]),
              msg |-> ""]
    ELSE [ok |-> FALSE, v |-> NoneV, msg |-> "must be str or list"]

\* Mutant: only the first unknown name is reported.
SigilCondition_name_must_exist_FirstOnly(loc, names) ==
    LET errors == SelectSeq(names, LAMBDA name : name \notin affix_sigil_dict) IN
    IF errors # << >>
    THEN << Err(loc, "The following affixes/dungeons do not exist", <<Head(errors)>>) >>
    ELSE << >>

\* SigilConditionModel.name_must_exist, on a field already validated as str
\* (names_in is a one-element sequence) or as list[str]
SigilCondition_name_must_exist(loc, names) ==
    LET errors == SelectSeq(names, LAMBDA name : name \notin affix_sigil_dict) IN
    IF errors # << >>
    THEN << Err(loc, "The following affixes/dungeons do not exist", errors) >>
    ELSE << >>

SigilConditionFields == {"name", "condition"}

IsStrList(x) == x.k = "list" /\ \A i \in 1..Len(x.items) : IsStr(x.items[i])
StrList(x) == [i \in 1..Len(x.items) |-> x.items[i].s]

\* condition: list[str] = [] with its field validator
ConditionErrors(x) ==
    IF x = Absent THEN << >>
    ELSE IF ~IsStrList(x) THEN << Err("condition", "list_type", << >>) >>
    ELSE SigilCondition_name_must_exist("condition", StrList(x))

SigilConditionFieldErrors(v) ==
    StrFieldErrors(Get(v, "name"), "name",
                   SigilCondition_name_must_exist("name", <<Get(v, "name").s>>))
    \o ConditionErrors(Get(v, "condition"))
    \o ExtraErrors(v, SigilConditionFields)

\* the model behind the "before" validator, whose outcome is pre
SigilConditionFromParsed(pre) ==
    IF ~pre.ok THEN Fail(<< Err("", pre.msg, << >>) >>)
    ELSE Finish(SigilConditionFieldErrors(pre.v),
                [name |-> Get(pre.v, "name").s,
                 condition |-> IF Get(pre.v, "condition") = Absent THEN << >>
                               ELSE StrList(Get(pre.v, "condition")),
                 fields_set |-> Keys(pre.v)])

SigilConditionModel(d) == SigilConditionFromParsed(SigilCondition_parse_data(d))

\* SigilPriority(enum.StrEnum)
SigilPriority == {"blacklist", "whitelist"}

\* BaseModel.__eq__ on two SigilConditionModel: the field values are equal
\* (fields_set is not compared)
SigilConditionEq(a, b) == a.name = b.name /\ a.condition = b.condition

\* SigilFilterModel.min_max_tier_in_range
min_max_tier_in_range(v) == 0 <= v /\ v <= 100

\* SigilFilterModel.data_integrity (model_validator, mode="after")
data_integrity(self) ==
    LET errors == SelectSeq(self.blacklist,
                            LAMBDA item : \E i \in 1..Len(self.whitelist) :
                                              SigilConditionEq(item, self.whitelist[i]))
    IN  IF errors # << >>
        THEN Fail(<< Err("", "blacklist and whitelist must not overlap",
                         [i \in 1..Len(errors) |-> errors[i].name]) >>)
        ELSE IF self.minTier > self.maxTier
        THEN Fail(<< Err("", "minTier must be smaller than maxTier", << >>) >>)
        ELSE Ok(self)

SigilFilterFields == {"blacklist", "maxTier", "minTier", "priority", "whitelist"}

\* the model made of the validated fields
SigilFilterFromFields(v, blacklist, whitelist) ==
    FinishWith(blacklist.errors
               \o IntErrors(v, "maxTier", min_max_tier_in_range)
               \o IntErrors(v, "minTier", min_max_tier_in_range)
               \o EnumErrors(Get(v, "priority"), "priority", SigilPriority)
               \o whitelist.errors
               \o ExtraErrors(v, SigilFilterFields),
               [blacklist |-> blacklist.m,
                maxTier |-> IntValue(v, "maxTier", MaxSize),
                minTier |-> IntValue(v, "minTier", 0),
                priority |-> EnumValue(Get(v, "priority"), "blacklist"),
                whitelist |-> whitelist.m,
                fields_set |-> Keys(v)],
               data_integrity)

SigilFilterModel(v) ==
    IF v.k # "dict" THEN Fail(<< Err("", "model_type", << >>) >>)
    ELSE SigilFilterFromFields(v, ListField(v, "blacklist", SigilConditionModel),
                                  ListField(v, "whitelist", SigilConditionModel))

----------------------------------------------------------------------------
(* class UniqueModel and ProfileModel                                       *)

\* the value of a field whose default None was kept
NoneModel == [name |-> "", value |-> NoneV, comparison |-> "", fields_set |-> {}]

UniqueFields == {"affix", "aspect", "itemType", "minGreaterAffixCount", "minPower"}

\* UniqueModel.check_min_power
Unique_check_min_power(v) == check_greater_than_zero(v)

\* UniqueModel.count_validator (minGreaterAffixCount)
Unique_count_validator(v) == check_greater_than_zero(v)

\* a field of a model type with default None: [errors, m] of the supplied value
OptionalField(x, r, none) ==
    IF x = Absent THEN [errors |-> << >>, m |-> none]
    ELSE [errors |-> r.errors, m |-> r.m]

\* the model made of the validated fields
UniqueFromFields(v, affix, aspect) ==
    Finish(affix.errors
           \o aspect.errors
           \o ItemTypeErrors(v)
           \o IntErrors(v, "minGreaterAffixCount", Unique_count_validator)
           \o IntErrors(v, "minPower", Unique_check_min_power)
           \o ExtraErrors(v, UniqueFields),
           [affix |-> affix.m,
            aspect |-> aspect.m,
            itemType |-> ItemTypeValue(v),
            minGreaterAffixCount |-> IntValue(v, "minGreaterAffixCount", 0),
            minPower |-> IntValue(v, "minPower", 0),
            fields_set |-> Keys(v)])

UniqueModel(v) ==
    IF v.k # "dict" THEN Fail(<< Err("", "model_type", << >>) >>)
    ELSE UniqueFromFields(v, ListField(v, "affix", AffixFilterModel),
                             OptionalField(Get(v, "aspect"),
                                           AspectUniqueFilterModel(Get(v, "aspect")),
                                           NoneModel))

\* the value of Sigils when it is None
NoneSigils == [blacklist |-> << >>, maxTier |-> 0, minTier |-> 0, priority |-> "",
               whitelist |-> << >>, fields_set |-> {}]

ProfileFields == {"name", "Affixes", "Sigils", "Uniques"}

\* Sigils: SigilFilterModel | None = None
SigilsField(x, r) ==
    IF x \in {Absent, NoneV} THEN [errors |-> << >>, m |-> NoneSigils]
    ELSE [errors |-> r.errors, m |-> r.m]

\* the model made of the validated fields
ProfileFromFields(v, Affixes, Sigils, Uniques) ==
    Finish(StrFieldErrors(Get(v, "name"), "name", << >>)
           \o Affixes.errors
           \o Sigils.errors
           \o Uniques.errors
           \o ExtraErrors(v, ProfileFields),
           [name |-> Get(v, "name").s,
            Affixes |-> Affixes.m,
            Sigils |-> Sigils.m,
            Uniques |-> Uniques.m,
            fields_set |-> Keys(v)])

ProfileModel(v) ==
    IF v.k # "dict" THEN Fail(<< Err("", "model_type", << >>) >>)
    ELSE ProfileFromFields(v, ListField(v, "Affixes", DynamicItemFilterModel),
                              SigilsField(Get(v, "Sigils"), SigilFilterModel(Get(v, "Sigils"))),
                              ListField(v, "Uniques", UniqueModel))

----------------------------------------------------------------------------
(* Serialization: pydantic's model_dump behind pydantic_yaml.to_yaml_str.  *)
(* With exclude_unset only the fields in fields_set are written.            *)

\* the mapping of the written fields: f maps every field to its dumped value
DumpFields(m, f, exclude_unset, exclude) ==
    Dict([key \in {x \in DOMAIN f : (~exclude_unset \/ x \in m.fields_set) /\ x \notin exclude}
             |-> f[key]])

DumpSeq(ms, DumpOne(_, _), exclude_unset) ==
    List([i \in 1..Len(ms) |-> DumpOne(ms[i], exclude_unset)])

DumpStrList(l) == List([i \in 1..Len(l) |-> Str(l[i])])

DumpAffix(m, exclude_unset) ==
    DumpFields(m, [name |-> Str(m.name), value |-> m.value, comparison |-> Str(m.comparison)],
               exclude_unset, {})

DumpAffixFilterCount(m, exclude_unset) ==
    DumpFields(m, [count |-> DumpSeq(m.count, DumpAffix, exclude_unset),
                   maxCount |-> Num(m.maxCount),
                   minCount |-> Num(m.minCount),
                   minGreaterAffixCount |-> Num(m.minGreaterAffixCount)],
               exclude_unset, {})

DumpItemFilter(m, exclude_unset) ==
    DumpFields(m, [affixPool |-> DumpSeq(m.affixPool, DumpAffixFilterCount, exclude_unset),
                   inherentPool |-> DumpSeq(m.inherentPool, DumpAffixFilterCount, exclude_unset),
                   itemType |-> DumpStrList(m.itemType),
                   minGreaterAffixCount |-> Num(m.minGreaterAffixCount),
                   minPower |-> Num(m.minPower)],
               exclude_unset, {})

\* a RootModel is written as its root value
DumpDynamicItemFilter(m, exclude_unset) ==
    Dict([key \in DOMAIN m.root |-> DumpItemFilter(m.root[key], exclude_unset)])

DumpSigilCondition(m, exclude_unset) ==
    DumpFields(m, [name |-> Str(m.name), condition |-> DumpStrList(m.condition)],
               exclude_unset, {})

DumpSigilFilter(m, exclude_unset) ==
    DumpFields(m, [blacklist |-> DumpSeq(m.blacklist, DumpSigilCondition, exclude_unset),
                   maxTier |-> Num(m.maxTier),
                   minTier |-> Num(m.minTier),
                   priority |-> Str(m.priority),
                   whitelist |-> DumpSeq(m.whitelist, DumpSigilCondition, exclude_unset)],
               exclude_unset, {})

DumpUnique(m, exclude_unset) ==
    DumpFields(m, [affix |-> DumpSeq(m.affix, DumpAffix, exclude_unset),
                   aspect |-> IF m.aspect = NoneModel THEN NoneV
                              ELSE DumpAffix(m.aspect, exclude_unset),
                   itemType |-> DumpStrList(m.itemType),
                   minGreaterAffixCount |-> Num(m.minGreaterAffixCount),
                   minPower |-> Num(m.minPower)],
               exclude_unset, {})

\* to_yaml_str(profile, exclude_unset=..., exclude=[...])
to_yaml_str(m, exclude_unset, exclude) ==
    DumpFields(m, [name |-> Str(m.name),
                   Affixes |-> DumpSeq(m.Affixes, DumpDynamicItemFilter, exclude_unset),
                   Sigils |-> IF m.Sigils = NoneSigils THEN NoneV
                              ELSE DumpSigilFilter(m.Sigils, exclude_unset),
                   Uniques |-> DumpSeq(m.Uniques, DumpUnique, exclude_unset)],
               exclude_unset, exclude)

----------------------------------------------------------------------------
(* The documents the model is run on, per model class.                      *)

Ints(S) == {Num(n) : n \in S}
Opt(S) == S \cup {Absent}
Lists(S, n) == {List(l) : l \in SeqsUpTo(S, n)}

\* shorthand for an affix / aspect rule: scalar, list or mapping
ShorthandAtoms == {Str("crit"), Str("aspect_x"), Num(5), Str("smaller"), NoneV}
AffixDocs ==
    ShorthandAtoms
    \cup Lists(ShorthandAtoms, MaxListLen)
    \cup {DictOf([name |-> a, value |-> b, comparison |-> c, extra |-> e]) :
             a \in Opt({Str("crit"), Str("aspect_x"), Num(5)}),
             b \in Opt({Num(5), Str("7"), Str("crit"), NoneV}),
             c \in Opt({Str("larger"), Str("smaller"), Str("bogus")}),
             e \in Opt({Num(1)})}

\* shorthand for a sigil condition
SigilAtoms == {Str("cellars"), Str("lightning"), Str("bogus"), Num(5)}
SigilConditionDocs ==
    SigilAtoms
    \cup Lists(SigilAtoms, MaxListLen)
    \cup {DictOf([name |-> a, condition |-> b, extra |-> e]) :
             a \in Opt({Str("cellars"), Str("bogus")}),
             b \in Opt({List(<< >>), List(<<Str("lightning")>>),
                        List(<<Str("bogus"), Str("cold"), Str("nope")>>), Str("cold")}),
             e \in Opt({Num(1)})}

\* affix pools
RuleDocs == {Str("crit"), List(<<Str("crit"), Num(5)>>),
             List(<<Str("vuln"), Num(5), Str("smaller")>>), Str("bogus")}
PoolDocs ==
    {DictOf([count |-> c, minCount |-> a, maxCount |-> b, minGreaterAffixCount |-> g]) :
        c \in Opt(Lists(RuleDocs, MaxRules)),
        a \in Opt(Ints({-1, 0, 1, 2, 3})),
        b \in Opt(Ints({-1, 0, 1, 2})),
        g \in Opt(Ints({-1, 1, 4}))}
    \cup {Str("crit"),
          DictOf([count |-> List(<<Str("crit")>>), extra |-> Num(1)]),
          DictOf([count |-> Str("crit")]),
          DictOf([count |-> List(<<Str("crit")>>), minCount |-> Str("many")])}

\* a few pools for the documents that nest them
Pool1 == DictOf([count |-> List(<<Str("crit"), Str("vuln")>>)])
Pool2 == DictOf([count |-> List(<<List(<<Str("crit"), Num(5)>>)>>), minCount |-> Num(1)])
Pool3 == DictOf([count |-> List(<<Str("crit"), Str("vuln")>>), maxCount |-> Num(1),
                 minGreaterAffixCount |-> Num(1)])
BadPool == DictOf([count |-> List(<< >>)])

ItemDocs ==
    {DictOf([affixPool |-> p, inherentPool |-> q, itemType |-> t,
             minGreaterAffixCount |-> g, minPower |-> w]) :
        p \in Opt({List(<< >>), List(<<Pool1>>), List(<<Pool2, Pool3>>), List(<<BadPool>>)}),
        q \in Opt({List(<<Pool1>>)}),
        t \in Opt({Str("helm"), List(<<Str("helm"), Str("boots")>>), Str("bogus"), Num(5)}),
        g \in Opt(Ints({-1, 0, 3, 4})),
        w \in Opt(Ints({-1, 0, 800}))}
    \cup {NoneV, DictOf([extra |-> Num(1)])}

\* sigil filters
ConditionDocs == {Str("cellars"), Str("lightning"), List(<<Str("cellars"), Str("cold")>>),
                  DictOf([name |-> Str("cellars")])}
SigilDocs ==
    {DictOf([blacklist |-> b, whitelist |-> w, minTier |-> lo, maxTier |-> hi, priority |-> p]) :
        b \in Opt(Lists(ConditionDocs, MaxRules)),
        w \in Opt({List(<<Str("cellars")>>), List(<<Str("lightning")>>),
                   List(<<List(<<Str("cellars"), Str("cold")>>), Str("bogus")>>)}),
        lo \in Opt(Ints({-1, 0, 50, 101})),
        hi \in Opt(Ints({40, 100, 101})),
        p \in Opt({Str("whitelist")})}
    \cup {NoneV, DictOf([priority |-> Str("bogus")]), DictOf([extra |-> Num(1)])}

\* unique rules
UniqueDocs ==
    {DictOf([affix |-> a, aspect |-> s, itemType |-> t, minGreaterAffixCount |-> g,
             minPower |-> w]) :
        a \in Opt({List(<<Str("crit")>>),
                   List(<<Str("crit"), List(<<Str("vuln"), Num(5)>>)>>),
                   List(<<Str("aspect_x")>>)}),
        s \in Opt({Str("aspect_x"), List(<<Str("aspect_x"), Num(30), Str("larger")>>),
                   Str("crit"), NoneV}),
        t \in Opt({Str("ring")}),
        g \in Opt(Ints({-1, 0, 3, 4})),
        w \in Opt(Ints({-1, 0}))}
    \cup {NoneV, DictOf([extra |-> Num(1)])}

\* profiles
Item1 == DictOf([affixPool |-> List(<<Pool1>>)])
Item2 == DictOf([affixPool |-> List(<<Pool2, Pool3>>), inherentPool |-> List(<<Pool1>>),
                 itemType |-> Str("helm"), minPower |-> Num(800)])
Item3 == DictOf([affixPool |-> List(<<Pool3>>), itemType |-> List(<<Str("helm"), Str("boots")>>),
                 minGreaterAffixCount |-> Num(3)])
BadItem == DictOf([affixPool |-> List(<<BadPool>>)])
Sigil1 == DictOf([blacklist |-> List(<<Str("cellars")>>), minTier |-> Num(50)])
Sigil2 == DictOf([blacklist |-> List(<<List(<<Str("cellars"), Str("cold")>>)>>),
                  whitelist |-> List(<<Str("lightning")>>), maxTier |-> Num(100),
                  priority |-> Str("whitelist")])
BadSigil == DictOf([minTier |-> Num(50), maxTier |-> Num(40)])
Unique1 == DictOf([aspect |-> List(<<Str("aspect_x"), Num(30), Str("larger")>>)])
Unique2 == DictOf([affix |-> List(<<Str("crit")>>), aspect |-> Str("aspect_x"),
                   minGreaterAffixCount |-> Num(4)])
Unique3 == DictOf([affix |-> List(<<List(<<Str("vuln"), Num(5)>>)>>), itemType |-> Str("ring")])

ProfileDocs ==
    {DictOf([name |-> n, Affixes |-> a, Sigils |-> s, Uniques |-> u]) :
        n \in Opt({Str("build")}),
        a \in Opt({List(<< >>),
                   List(<<DictOf([helm |-> Item1])>>),
                   List(<<DictOf([helm |-> Item2, boots |-> Item3])>>),
                   List(<<DictOf([helm |-> Item1])>>) ,
                   List(<<DictOf([helm |-> Item3]), DictOf([helm |-> Item2])>>),
                   List(<<DictOf([helm |-> BadItem])>>),
                   DictOf([helm |-> Item1])}),
        s \in Opt({NoneV, Sigil1, Sigil2, BadSigil}),
        u \in Opt({List(<< >>), List(<<Unique1>>), List(<<Unique2, Unique3>>)})}
    \cup {NoneV, DictOf([name |-> Str("build"), extra |-> Num(1)])}

Kinds == {"affix", "aspect", "pool", "item", "sigil_condition", "sigil", "unique", "profile"}

Docs(k) ==
    CASE k = "affix" -> AffixDocs
      [] k = "aspect" -> AffixDocs
      [] k = "pool" -> PoolDocs
      [] k = "item" -> ItemDocs
      [] k = "sigil_condition" -> SigilConditionDocs
      [] k = "sigil" -> SigilDocs
      [] k = "unique" -> UniqueDocs
      [] k = "profile" -> ProfileDocs

\* Model(**document) for the model class k
Validate(k, d) ==
    CASE k = "affix" -> AffixFilterModel(d)
      [] k = "aspect" -> AspectUniqueFilterModel(d)
      [] k = "pool" -> AffixFilterCountModel(d)
      [] k = "item" -> ItemFilterModel(d)
      [] k = "sigil_condition" -> SigilConditionModel(d)
      [] k = "sigil" -> SigilFilterModel(d)
      [] k = "unique" -> UniqueModel(d)
      [] k = "profile" -> ProfileModel(d)

\* model_dump of a model of class k
Dump(k, m, exclude_unset) ==
    CASE k = "affix" -> DumpAffix(m, exclude_unset)
      [] k = "aspect" -> DumpAffix(m, exclude_unset)
      [] k = "pool" -> DumpAffixFilterCount(m, exclude_unset)
      [] k = "item" -> DumpItemFilter(m, exclude_unset)
      [] k = "sigil_condition" -> DumpSigilCondition(m, exclude_unset)
      [] k = "sigil" -> DumpSigilFilter(m, exclude_unset)
      [] k = "unique" -> DumpUnique(m, exclude_unset)
      [] k = "profile" -> to_yaml_str(m, exclude_unset, {})

----------------------------------------------------------------------------
(* Evaluation of an AffixFilterCountModel against the affixes of an item.  *)

\* an affix of an item: name, value and whether it is a greater affix
ItemAffix(name, value, greater) == [name |-> name, value |-> value, greater |-> greater]

ItemAffixes == {ItemAffix("crit", 6, TRUE), ItemAffix("crit", 6, FALSE),
                ItemAffix("crit", 4, FALSE),
                ItemAffix("vuln", 4, TRUE), ItemAffix("vuln", 4, FALSE),
                ItemAffix("vuln", 6, FALSE)}

\* the item affix has the rule's name and, when the rule has a threshold,
\* satisfies the comparison
AffixMatches(rule, a) ==
    /\ a.name = rule.name
    /\ \/ rule.value = NoneV
       \/ rule.comparison = "larger" /\ a.value >= rule.value.n
       \/ rule.comparison = "smaller" /\ a.value <= rule.value.n

RuleMatched(rule, affixes) == \E i \in 1..Len(affixes) : AffixMatches(rule, affixes[i])

\* Mutant: the backing affix of a matched rule is the last that matches.
Backing_Last(rule, affixes) ==
    LET hits == {i \in 1..Len(affixes) : AffixMatches(rule, affixes[i])}
    IN  affixes[CHOOSE i \in hits : \A j \in hits : j <= i]

\* the item affix backing a matched rule: the first that matches
Backing(rule, affixes) ==
    LET hits == {i \in 1..Len(affixes) : AffixMatches(rule, affixes[i])}
    IN  affixes[CHOOSE i \in hits : \A j \in hits : i <= j]

\* the number of rules of the pool that are matched
satisfied(p, affixes) ==
    Cardinality({i \in 1..Len(p.count) : RuleMatched(p.count[i], affixes)})

\* the number of matched rules whose backing item affix is a greater affix
greaterSatisfied(p, affixes) ==
    Cardinality({i \in 1..Len(p.count) :
                    /\ RuleMatched(p.count[i], affixes)
                    /\ Backing(p.count[i], affixes).greater})

PoolMatches(p, affixes) ==
    /\ p.minCount <= satisfied(p, affixes)
    /\ satisfied(p, affixes) <= p.maxCount
    /\ greaterSatisfied(p, affixes) >= p.minGreaterAffixCount

----------------------------------------------------------------------------
(* decide: the priority resolver over the active profiles.                  *)

MaxProfiles == 2       \* most active profiles

\* an item snapshot: type, power, affixes and inherent affixes
ItemSnapshot(type, power, affixes, inherent) ==
    [type |-> type, power |-> power, affixes |-> affixes, inherent |-> inherent]

ItemSnapshots ==
    {ItemSnapshot(t, w, a, i) :
        t \in {"helm", "ring"},
        w \in {500, 800},
        a \in {<< >>, <<ItemAffix("crit", 6, FALSE)>>,
               <<ItemAffix("crit", 6, TRUE), ItemAffix("vuln", 4, TRUE)>>},
        i \in {<< >>, <<ItemAffix("crit", 4, FALSE), ItemAffix("vuln", 4, FALSE)>>}}

RECURSIVE GreaterTotal(_, _)
\* the greater affixes counted over the pools
GreaterTotal(pools, affixes) ==
    IF pools = << >> THEN 0
    ELSE greaterSatisfied(Head(pools), affixes) + GreaterTotal(Tail(pools), affixes)

\* ItemRule evaluation: type, power, greater affixes, and every pool of
\* both lists on its own candidate list
ItemRuleMatches(rule, s) ==
    /\ rule.itemType = << >> \/ \E t \in 1..Len(rule.itemType) : rule.itemType[t] = s.type
    /\ s.power >= rule.minPower
    /\ GreaterTotal(rule.affixPool, s.affixes) >= rule.minGreaterAffixCount
    /\ \A k \in 1..Len(rule.affixPool) : PoolMatches(rule.affixPool[k], s.affixes)
    /\ \A k \in 1..Len(rule.inherentPool) : PoolMatches(rule.inherentPool[k], s.inherent)

\* the name of an entry of Affixes (one rule name per entry) and its rule
RuleName(entry) == CHOOSE name \in DOMAIN entry.root : TRUE
RuleOf(entry) == entry.root[RuleName(entry)]

\* the documents of the active profiles: Affixes entries of one rule each
ProfileNames == {"P1", "P2", "P3"}
RuleLists == {<< >>,
              <<DictOf([helm |-> Item1])>>,
              <<DictOf([helm |-> Item2]), DictOf([boots |-> Item1])>>,
              <<DictOf([helm |-> Item3]), DictOf([any |-> Item1])>>}
ActiveProfileDocs ==
    {DictOf([name |-> Str(n), Affixes |-> List(a)]) : n \in ProfileNames, a \in RuleLists}

\* the loaded profiles
ActiveProfiles == {Validate("profile", d).m : d \in ActiveProfileDocs}

\* Mutant: the profiles are walked from the last to the first.
Order_Reversed(ps) ==
    Concat([i \in 1..Len(ps) |->
               [j \in 1..Len(ps[Len(ps) + 1 - i].Affixes) |->
                   [profile |-> Len(ps) + 1 - i, rule |-> j]]])

\* the search order: profiles in the configured order, the rules of a
\* profile in document order
Order(ps) ==
    Concat([i \in 1..Len(ps) |->
               [j \in 1..Len(ps[i].Affixes) |-> [profile |-> i, rule |-> j]]])

\* the decision: kept with the identity of the winning rule, or not kept
Kept(profileName, ruleName) ==
    [kept |-> TRUE, profileName |-> <<profileName>>, ruleName |-> <<ruleName>>]
NotKept == [kept |-> FALSE, profileName |-> << >>, ruleName |-> << >>]
Undecided == [kept |-> FALSE, profileName |-> <<"?">>, ruleName |-> <<"?">>]

\* one step of decide: the rule at the cursor is evaluated; a match ends the
\* search with that rule, the end of the order ends it with no rule
decide ==
    /\ pc = "decide"
    /\ IF cursor > Len(Order(profiles))
       THEN /\ decision' = NotKept
            /\ pc' = "done"
            /\ UNCHANGED <<cursor, evaluated>>
       ELSE LET pos == Order(profiles)[cursor]
                entry == profiles[pos.profile].Affixes[pos.rule]
            IN  /\ evaluated' = Append(evaluated, pos)
                /\ IF ItemRuleMatches(RuleOf(entry), snapshot)
                   THEN /\ decision' = Kept(profiles[pos.profile].name, RuleName(entry))
                        /\ pc' = "done"
                        /\ UNCHANGED cursor
                   ELSE /\ cursor' = cursor + 1
                        /\ UNCHANGED <<decision, pc>>
    /\ UNCHANGED <<pipeline, importer, profiles, snapshot>>

----------------------------------------------------------------------------
(* save_as_profile: the file name, as sequences of characters.              *)

\* [a-zA-Z0-9_], over the characters of the model
IsWordChar(c) == c \in {"a", "b", "1", "_"}

RECURSIVE CollapseUnderscores(_)
\* re.sub(r"_+", "_", s)
CollapseUnderscores(s) ==
    IF Len(s) <= 1 THEN s
    ELSE IF s[1] = "_" /\ s[2] = "_" THEN CollapseUnderscores(Tail(s))
    ELSE <<s[1]>> \o CollapseUnderscores(Tail(s))

RECURSIVE RStripUnderscores(_)
\* s.rstrip("_")
RStripUnderscores(s) ==
    IF s # << >> /\ s[Len(s)] = "_" THEN RStripUnderscores(SubSeq(s, 1, Len(s) - 1)) ELSE s

\* the three rewrites of file_name at the top of save_as_profile
SanitizeFileName(name) ==
    LET unquoted == SelectSeq(name, LAMBDA c : c # "'")
        worded == [i \in 1..Len(unquoted) |->
                      IF IsWordChar(unquoted[i]) THEN unquoted[i] ELSE "_"]
    IN  RStripUnderscores(CollapseUnderscores(worded))

FileNames == {<<"a", "'", "b">>, <<"a", " ", "-", "b">>, <<"a", "_", "1", "!", "_">>}

----------------------------------------------------------------------------
(* get_with_retry: up to five GET requests for one URL.                     *)

\* range(5): the number of attempts of get_with_retry and of the wrapper
Attempts == 5

\* status codes a server answers with
StatusCodes == {200, 301, 404, 500}

\* what httpx.get does: a response with a status code, or an httpx error
\* (the request did not complete)
HttpResults == [raised : {FALSE}, status_code : StatusCodes]
                   \cup {[raised |-> TRUE, status_code |-> 0]}

\* how a call ended: by return (value holds the one value returned) or by
\* raise (exc names the exception)
Running == [how |-> "running", value |-> << >>, exc |-> ""]
Returned(v) == [how |-> "return", value |-> <<v>>, exc |-> ""]
Raised(e) == [how |-> "raise", value |-> << >>, exc |-> e]

\* Mutant: a redirect counts as success.
IsSuccess_Not4xx5xx(r) == r.status_code < 400

\* r.status_code == 200
IsSuccess(r) == r.status_code = 200

\* one iteration of the loop of get_with_retry; after the fifth unsuccessful
\* one the else branch of the for raises ConnectionError
get_with_retry ==
    /\ pc = "get_with_retry"
    /\ Len(responses) < Attempts
    /\ \E r \in HttpResults :
          /\ responses' = Append(responses, r)
          /\ IF r.raised
             THEN outcome' = Raised("httpx.HTTPError") /\ pc' = "done"
             ELSE IF IsSuccess(r)
             THEN outcome' = Returned(r) /\ pc' = "done"
             ELSE IF Len(responses) + 1 = Attempts
             THEN outcome' = Raised("ConnectionError") /\ pc' = "done"
             ELSE UNCHANGED <<outcome, pc>>
    /\ UNCHANGED <<pipeline, inject_webdriver, args, kwargs, created, calls, quit_calls, resolver>>

----------------------------------------------------------------------------
(* retry_importer: the wrapper around an importer function.                 *)

BrowserType == {"edge", "chrome", "firefox"}

\* the headless driver of the configured browser
setup_webdriver(browser) ==
    [browser |-> browser,
     arguments |-> IF browser = "firefox" THEN <<"--headless", "log-level=3">>
                   ELSE <<"--headless=new", "log-level=3">>]

\* a driver the caller made
CallerDriver == [browser |-> "chrome", arguments |-> << >>]

\* positional and keyword arguments the wrapper is called with
ArgLists == {<< >>, <<"url">>}
KwargDicts == {<< >>, [url |-> "url"], [driver |-> CallerDriver],
               [url |-> "url", driver |-> CallerDriver]}

\* kwargs[key] = value
SetItem(d, key, value) ==
    [k \in (DOMAIN d) \cup {key} |-> IF k = key THEN value ELSE d[k]]

\* what one call of wrap_function does: it returns a value (an importer
\* returns nothing, i.e. None) or raises
CallResults == {Returned("profile"), Returned("None"), Raised("Exception")}

\* the record of one call of wrap_function(*args, **kwargs)
Call(a, kw, r) ==
    [args |-> a,
     driver |-> IF "driver" \in DOMAIN kw THEN <<kw["driver"]>> ELSE << >>,
     result |-> r]

\* wrapper(*args, **kwargs) up to the loop: the driver is made when
\* inject_webdriver is set and the caller passed neither a driver keyword
\* nor positional arguments; webdriver.Edge / Chrome / Firefox may raise
wrapper ==
    /\ pc = "wrapper"
    /\ IF inject_webdriver /\ "driver" \notin DOMAIN kwargs /\ args = << >>
       THEN \/ \E browser \in BrowserType :
                  /\ created' = <<setup_webdriver(browser)>>
                  /\ kwargs' = SetItem(kwargs, "driver", setup_webdriver(browser))
                  /\ pc' = "attempts"
                  /\ UNCHANGED outcome
            \/ /\ outcome' = Raised("WebDriverException")
               /\ pc' = "done"
               /\ UNCHANGED <<created, kwargs>>
       ELSE /\ pc' = "attempts"
            /\ UNCHANGED <<created, kwargs, outcome>>
    /\ UNCHANGED <<pipeline, responses, inject_webdriver, args, calls, quit_calls, resolver>>

\* one iteration of the wrapper's loop: wrap_function is called; when it
\* returns and inject_webdriver is set, kwargs["driver"].quit() runs inside
\* the try, so its KeyError is caught like an exception of wrap_function;
\* after the fifth caught exception the wrapper returns None
attempt ==
    /\ pc = "attempts"
    /\ Len(calls) < Attempts
    /\ \E r \in CallResults :
          LET caught == \/ r.how = "raise"
                        \/ inject_webdriver /\ "driver" \notin DOMAIN kwargs
          IN  /\ calls' = Append(calls, Call(args, kwargs, r))
              /\ quit_calls' = IF r.how = "return" /\ inject_webdriver /\ ~caught
                               THEN Append(quit_calls, kwargs["driver"])
                               ELSE quit_calls
              /\ IF ~caught
                 THEN outcome' = r /\ pc' = "done"
                 ELSE IF Len(calls) + 1 = Attempts
                 THEN outcome' = Returned("None") /\ pc' = "done"
                 ELSE UNCHANGED <<outcome, pc>>
    /\ UNCHANGED <<pipeline, responses, inject_webdriver, args, kwargs, created, resolver>>

\* no importer call is in progress
ImporterIdle ==
    /\ responses = << >>
    /\ outcome = Running
    /\ inject_webdriver = FALSE
    /\ args = << >>
    /\ kwargs = << >>
    /\ created = << >>
    /\ calls = << >>
    /\ quit_calls = << >>

----------------------------------------------------------------------------
(* The pipeline: a document is validated, the model is serialized, and the *)
(* serialized document is validated again.                                  *)

NoResult == Fail(<< >>)

\* no document is in the pipeline
PipelineIdle ==
    /\ kind = "none"
    /\ data = Absent
    /\ result = NoResult
    /\ full_dump = FALSE
    /\ file_name = << >>
    /\ yaml = Absent
    /\ result2 = NoResult
    /\ pool = Null
    /\ item_affixes = << >>

\* no decision is being made
ResolverIdle ==
    /\ profiles = << >>
    /\ snapshot = ItemSnapshot("", 0, << >>, << >>)
    /\ cursor = 1
    /\ evaluated = << >>
    /\ decision = Undecided

Init ==
    /\ kind \in Kinds
    /\ data \in Docs(kind)
    /\ pc = "input"
    /\ result = NoResult
    /\ full_dump = FALSE
    /\ file_name = << >>
    /\ yaml = Absent
    /\ result2 = NoResult
    /\ pool = Null
    /\ item_affixes = << >>
    /\ ImporterIdle
    /\ ResolverIdle

\* Model(**data): the document is validated against its model class
Load ==
    /\ pc = "input"
    /\ result' = Validate(kind, data)
    /\ pc' = "validated"
    /\ UNCHANGED <<kind, data, full_dump, file_name, yaml, result2, pool, item_affixes, importer, resolver>>

\* the model is serialized whole, with exclude_unset=not full_dump
Serialize ==
    /\ pc = "validated"
    /\ result.ok
    /\ \E fd \in BOOLEAN :
          /\ full_dump' = fd
          /\ yaml' = Dump(kind, result.m, ~fd)
    /\ pc' = "dumped"
    /\ UNCHANGED <<kind, data, result, file_name, result2, pool, item_affixes, importer, resolver>>

\* save_as_profile(file_name, profile, url)
save_as_profile ==
    /\ pc = "validated"
    /\ kind = "profile"
    /\ result.ok
    /\ \E name \in FileNames, fd \in BOOLEAN :
          /\ file_name' = SanitizeFileName(name)
          /\ full_dump' = fd
          /\ yaml' = to_yaml_str(result.m, ~fd, {"name", "Sigils", "Uniques"})
    /\ pc' = "saved"
    /\ UNCHANGED <<kind, data, result, result2, pool, item_affixes, importer, resolver>>

\* the serialized document is validated again
Reparse ==
    /\ pc = "dumped"
    /\ result2' = Validate(kind, yaml)
    /\ pc' = "reparsed"
    /\ UNCHANGED <<kind, data, result, full_dump, file_name, yaml, pool, item_affixes, importer, resolver>>

\* a saved profile is loaded again: ProfileModel(name=..., **config), the
\* name being the one the profile is known under
Reload ==
    /\ pc = "saved"
    /\ result2' = ProfileModel(Dict([key \in Keys(yaml) \cup {"name"} |->
                                        IF key = "name" THEN Str(result.m.name)
                                        ELSE yaml.d[key]]))
    /\ pc' = "reloaded"
    /\ UNCHANGED <<kind, data, result, full_dump, file_name, yaml, pool, item_affixes, importer, resolver>>

\* an accepted pool is handed to the evaluation of an item
Evaluate ==
    /\ pc = "validated"
    /\ kind = "pool"
    /\ result.ok
    /\ pool' = result.m
    /\ item_affixes' = << >>
    /\ pc' = "evaluating"
    /\ UNCHANGED <<kind, data, result, full_dump, file_name, yaml, result2, importer, resolver>>

\* one more affix joins the candidate list
AddAffix ==
    /\ pc = "evaluating"
    /\ Len(item_affixes) < MaxItemAffixes
    /\ \E a \in ItemAffixes : item_affixes' = Append(item_affixes, a)
    /\ UNCHANGED <<kind, data, pc, result, full_dump, file_name, yaml, result2, pool, importer, resolver>>

Next ==
    \/ Load
    \/ Serialize
    \/ save_as_profile
    \/ Reparse
    \/ Reload
    \/ Evaluate
    \/ AddAffix

Spec == Init /\ [][Next]_vars

\* get_with_retry(url) is called
InitGet ==
    /\ pc = "get_with_retry"
    /\ PipelineIdle
    /\ ImporterIdle
    /\ ResolverIdle

NextGet == get_with_retry

SpecGet == InitGet /\ [][NextGet]_vars

\* a function decorated with retry_importer is called
InitImporter ==
    /\ pc = "wrapper"
    /\ PipelineIdle
    /\ ResolverIdle
    /\ responses = << >>
    /\ outcome = Running
    /\ inject_webdriver \in BOOLEAN
    /\ args \in ArgLists
    /\ kwargs \in KwargDicts
    /\ created = << >>
    /\ calls = << >>
    /\ quit_calls = << >>

NextImporter ==
    \/ wrapper
    \/ attempt

SpecImporter == InitImporter /\ [][NextImporter]_vars

\* decide(profiles, item) is called on profiles of distinct names
InitDecide ==
    /\ pc = "decide"
    /\ PipelineIdle
    /\ ImporterIdle
    /\ profiles \in {ps \in SeqsUpTo(ActiveProfiles, MaxProfiles) :
                        \A i, j \in 1..Len(ps) : ps[i].name = ps[j].name => i = j}
    /\ snapshot \in ItemSnapshots
    /\ cursor = 1
    /\ evaluated = << >>
    /\ decision = Undecided

NextDecide == decide

SpecDecide == InitDecide /\ [][NextDecide]_vars

----------------------------------------------------------------------------
(* Properties of AffixFilterCountModel.                                     *)

\* the document has been validated as a pool: result is AffixFilterCountModel(data)
PoolValidated == pc # "input" /\ kind = "pool"

\* the author supplied neither minCount nor maxCount
BoundsOmitted(d) == "minCount" \notin Keys(d) /\ "maxCount" \notin Keys(d)

\* the number of entries of the document's rule list (0 when there is none)
RuleCount(d) == IF Get(d, "count").k = "list" THEN Len(Get(d, "count").items) ELSE 0

\* the author supplied the number n for the key
Supplied(d, key, n) == IsNumber(Get(d, key)) /\ ToNumber(Get(d, key)) = n
SuppliedBelow(d, key, n) == IsNumber(Get(d, key)) /\ ToNumber(Get(d, key)) < n

\* C1: an accepted pool for which the author supplied neither minCount nor
\* maxCount has minCount = maxCount = the number of entries of its rule list.
C1_InferredBounds ==
    (PoolValidated /\ result.ok /\ BoundsOmitted(data))
        => /\ result.m.minCount = RuleCount(data)
           /\ result.m.maxCount = RuleCount(data)
           /\ Len(result.m.count) = RuleCount(data)

C1_Witness ==
    /\ PoolValidated /\ result.ok /\ BoundsOmitted(data)
    /\ RuleCount(data) = 2
    /\ result.m.minCount = 2 /\ result.m.maxCount = 2

\* the document breaks 0 <= minCount <= maxCount or has no rule
BreaksPoolInvariant(d) ==
    \/ SuppliedBelow(d, "minCount", 0)
    \/ SuppliedBelow(d, "maxCount", 0)
    \/ /\ IsNumber(Get(d, "minCount")) /\ IsNumber(Get(d, "maxCount"))
       /\ ToNumber(Get(d, "minCount")) > ToNumber(Get(d, "maxCount"))
    \/ RuleCount(d) = 0

\* C2: every accepted pool, whichever of minCount and maxCount the author
\* supplied, has 0 <= minCount <= maxCount and a non-empty rule list, and a
\* document that breaks one of these is rejected.
C2_PoolInvariant ==
    PoolValidated =>
        /\ result.ok => /\ 0 <= result.m.minCount
                        /\ result.m.minCount <= result.m.maxCount
                        /\ Len(result.m.count) >= 1
        /\ BreaksPoolInvariant(data) => ~result.ok

\* an accepted pool with only one of the two bounds supplied
C2_Witness ==
    /\ PoolValidated /\ result.ok
    /\ "minCount" \in Keys(data) /\ "maxCount" \notin Keys(data)
    /\ result.m.minCount = 2 /\ result.m.maxCount = MaxSize

\* the document with its minCount and maxCount entries removed
WithoutBounds(d) == Dict([key \in Keys(d) \ {"minCount", "maxCount"} |-> d.d[key]])

\* C3 as stated: a pool whose bounds come out as minCount = maxCount = 0 is
\* rejected, whether the bounds are inferred from an empty rule list or
\* written as minCount: 0 and maxCount: 0.
C3_ZeroBoundsRejected ==
    (PoolValidated /\ data.k = "dict"
     /\ \/ BoundsOmitted(data) /\ RuleCount(data) = 0
        \/ Supplied(data, "minCount", 0) /\ Supplied(data, "maxCount", 0))
        => ~result.ok

\* C3 amended: a pool with an empty rule list is rejected, so bounds inferred
\* as 0/0 never pass; minCount: 0 with maxCount: 0 written over a rule list
\* is accepted exactly when the same pool without bounds is.
C3_EmptyPoolRejected ==
    PoolValidated =>
        /\ (data.k = "dict" /\ RuleCount(data) = 0) => ~result.ok
        /\ (result.ok /\ BoundsOmitted(data)) => result.m.minCount > 0
        /\ (data.k = "dict" /\ Supplied(data, "minCount", 0) /\ Supplied(data, "maxCount", 0))
               => (result.ok <=> AffixFilterCountModel(WithoutBounds(data)).ok)

\* bounds written as 0/0 over a rule list: accepted
C3_Witness ==
    /\ PoolValidated /\ result.ok
    /\ Supplied(data, "minCount", 0) /\ Supplied(data, "maxCount", 0)
    /\ result.m.minCount = 0 /\ result.m.maxCount = 0
    /\ Len(result.m.count) >= 1

----------------------------------------------------------------------------
(* Round trip.                                                              *)

----------------------------------------------------------------------------
(* Shorthand normalization.                                                 *)

AffixValidated == pc # "input" /\ kind \in {"affix", "aspect"}

\* the mapping that gives the positions of a list to the fields in order
Positional(fields, items) ==
    Dict([key \in {fields[i] : i \in 1..Len(items)} |->
             items[CHOOSE i \in 1..Len(items) : fields[i] = key]])

\* the float | None a shorthand position stands for
AsValue(v) == IF v.k = "none" THEN NoneV ELSE Num(ToNumber(v))

\* C5: for an affix / aspect rule, a bare string s is the rule of [s] (name
\* s, no value, comparison larger); a list of 1 to 3 gives its positions to
\* name, value, comparison; an empty list, a longer list and any other
\* non-mapping fail.
C5_AffixShorthand ==
    AffixValidated =>
        /\ data.k = "str" =>
               /\ result = Validate(kind, List(<<data>>))
               /\ result.ok => /\ result.m.name = data.s
                               /\ result.m.value = NoneV
                               /\ result.m.comparison = "larger"
        /\ (data.k = "list" /\ Len(data.items) \in 1..3) =>
               /\ result = Validate(kind, Positional(<<"name", "value", "comparison">>, data.items))
               /\ result.ok =>
                     /\ result.m.name = data.items[1].s
                     /\ result.m.value = IF Len(data.items) >= 2 THEN AsValue(data.items[2])
                                          ELSE NoneV
                     /\ result.m.comparison = IF Len(data.items) = 3 THEN data.items[3].s
                                               ELSE "larger"
        /\ (data.k = "list" /\ Len(data.items) \notin 1..3) => ~result.ok
        /\ data.k \notin {"str", "list", "dict"} => ~result.ok

C5_Witness ==
    /\ AffixValidated /\ result.ok
    /\ data.k = "list" /\ Len(data.items) = 3
    /\ result.m.name = "crit" /\ result.m.value = Num(5) /\ result.m.comparison = "smaller"

SigilConditionValidated == pc # "input" /\ kind = "sigil_condition"

\* the part of the sigil shorthand that holds of every list length
SigilShorthandCommon ==
    /\ data.k = "str" =>
           /\ result = Validate(kind, List(<<data>>))
           /\ result.ok => result.m.name = data.s /\ result.m.condition = << >>
    /\ (data.k = "list" /\ Len(data.items) \in 1..3 /\ result.ok) =>
           /\ result.m.name = data.items[1].s
           /\ result.m.condition = [i \in 1..(Len(data.items) - 1) |-> data.items[i + 1].s]
    /\ (data.k = "list" /\ Len(data.items) = 0) => ~result.ok
    /\ data.k \notin {"str", "list", "dict"} => ~result.ok

\* C6 as stated: for a sigil condition, a bare string s is the condition of
\* [s]; a list of 1 to 3 gives its first element to the name and the rest,
\* in order, to the qualifiers; every other shape, a list of more than 3
\* included, fails.
C6_SigilShorthand ==
    SigilConditionValidated =>
        /\ SigilShorthandCommon
        /\ (data.k = "list" /\ Len(data.items) > 3) => ~result.ok

\* C6 amended: a list of any length from 1 gives its first element to the
\* name and the rest, in order, to the qualifiers; only the empty list and
\* a value that is no string, list or mapping fail on their shape.
C6_SigilShorthandAnyLength ==
    SigilConditionValidated =>
        /\ SigilShorthandCommon
        /\ (data.k = "list" /\ Len(data.items) >= 1) =>
               /\ result = Validate(kind, DictOf([name |-> data.items[1],
                                                  condition |-> IF Len(data.items) >= 2
                                                                THEN List(Tail(data.items))
                                                                ELSE Absent]))
               /\ result.ok =>
                     /\ result.m.name = data.items[1].s
                     /\ result.m.condition =
                            [i \in 1..(Len(data.items) - 1) |-> data.items[i + 1].s]
               /\ (\A i \in 1..Len(data.items) :
                       IsStr(data.items[i]) /\ data.items[i].s \in affix_sigil_dict)
                     => result.ok

\* a list of four names, accepted
C6_Witness ==
    /\ SigilConditionValidated /\ result.ok
    /\ data.k = "list" /\ Len(data.items) = 4
    /\ Len(result.m.condition) = 3

----------------------------------------------------------------------------
(* Numeric domains and cross-field checks.                                  *)

\* some condition of the blacklist equals one of the whitelist
Overlap(m) ==
    \E i \in 1..Len(m.blacklist), j \in 1..Len(m.whitelist) :
        SigilConditionEq(m.blacklist[i], m.whitelist[j])

\* C7: every accepted SigilFilterModel, also one whose minTier or maxTier
\* was omitted, has 0 <= minTier <= maxTier <= 100 and no condition in both
\* its blacklist and its whitelist.
C7_SigilRuleInvariant ==
    (pc # "input" /\ kind = "sigil" /\ result.ok) =>
        /\ 0 <= result.m.minTier
        /\ result.m.minTier <= result.m.maxTier
        /\ result.m.maxTier <= 100
        /\ ~Overlap(result.m)

\* C8: minGreaterAffixCount of every accepted ItemFilterModel,
\* AffixFilterCountModel and UniqueModel lies in [0,3], and a value outside
\* [0,3] is rejected.
C8_GreaterAffixCountRange ==
    (pc # "input" /\ kind \in {"item", "pool", "unique"}) =>
        /\ result.ok => result.m.minGreaterAffixCount \in 0..3
        /\ (data.k = "dict" /\ IsNumber(Get(data, "minGreaterAffixCount"))
            /\ ToNumber(Get(data, "minGreaterAffixCount")) \notin 0..3) => ~result.ok

----------------------------------------------------------------------------
(* Catalog references.                                                      *)

Range(f) == {f[i] : i \in DOMAIN f}

\* the names a validation error lists
ListedNames(errors) == UNION {Range(errors[i].names) : i \in 1..Len(errors)}

\* the name a rule document refers to, when it has one
NameOf(d, Pre(_)) ==
    IF Pre(d).ok /\ IsStr(Get(Pre(d).v, "name")) THEN {Get(Pre(d).v, "name").s} ELSE {}

\* the qualifiers a sigil condition document refers to, when they are well typed
QualifiersOf(d) ==
    LET pre == SigilCondition_parse_data(d) IN
    IF pre.ok /\ Get(pre.v, "condition") # Absent /\ IsStrList(Get(pre.v, "condition"))
    THEN Range(StrList(Get(pre.v, "condition")))
    ELSE {}

\* the sigil condition document has string names throughout and known keys
WellTypedCondition(d) ==
    LET pre == SigilCondition_parse_data(d) IN
    /\ pre.ok
    /\ IsStr(Get(pre.v, "name"))
    /\ Get(pre.v, "condition") = Absent \/ IsStrList(Get(pre.v, "condition"))
    /\ Keys(pre.v) \subseteq SigilConditionFields

\* C9: a rule is accepted only if every name it refers to is in the
\* matching Catalog set, and the error of a sigil condition lists exactly
\* the names that are not.
C9_NamesResolved ==
    pc # "input" =>
        /\ kind = "affix" =>
               /\ result.ok => result.m.name \in affix_dict
               /\ NameOf(data, parse_data) \ affix_dict # {} => ~result.ok
        /\ kind = "aspect" =>
               /\ result.ok => result.m.name \in aspect_unique_dict
               /\ NameOf(data, parse_data) \ aspect_unique_dict # {} => ~result.ok
        /\ kind = "sigil_condition" =>
               /\ result.ok => /\ result.m.name \in affix_sigil_dict
                               /\ Range(result.m.condition) \subseteq affix_sigil_dict
               /\ LET missing == (NameOf(data, SigilCondition_parse_data) \cup QualifiersOf(data))
                                  \ affix_sigil_dict
                  IN  /\ missing # {} => ~result.ok
                      /\ WellTypedCondition(data) => ListedNames(result.errors) = missing
        /\ (kind = "pool" /\ result.ok) =>
               \A i \in 1..Len(result.m.count) : result.m.count[i].name \in affix_dict
        /\ (kind = "unique" /\ result.ok) =>
               /\ \A i \in 1..Len(result.m.affix) : result.m.affix[i].name \in affix_dict
               /\ result.m.aspect # NoneModel => result.m.aspect.name \in aspect_unique_dict
        /\ (kind = "sigil" /\ result.ok) =>
               \A c \in Range(result.m.blacklist) \cup Range(result.m.whitelist) :
                   c.name \in affix_sigil_dict /\ Range(c.condition) \subseteq affix_sigil_dict

\* a sigil condition with an unknown name and an unknown and a known
\* qualifier: the unknown ones are listed, the known one is not
C9_Witness ==
    /\ SigilConditionValidated /\ ~result.ok
    /\ WellTypedCondition(data)
    /\ ListedNames(result.errors) = {"bogus", "nope"}
    /\ "cold" \in QualifiersOf(data)

----------------------------------------------------------------------------
(* Pool evaluation.                                                         *)

\* the candidate list before its last affix was added, and that affix
Before == SubSeq(item_affixes, 1, Len(item_affixes) - 1)
Added == item_affixes[Len(item_affixes)]

\* the affix satisfies one of the pool's rules
Qualifies(p, a) == \E i \in 1..Len(p.count) : AffixMatches(p.count[i], a)

\* a qualifying affix was added to a candidate list on which the pool matched
AddedToMatch ==
    /\ pc = "evaluating"
    /\ Len(item_affixes) >= 1
    /\ PoolMatches(pool, Before)
    /\ Qualifies(pool, Added)

\* C10 as stated: when a valid pool matches a candidate list, it still
\* matches after one more affix that satisfies one of its rules is added.
C10_Monotonic == AddedToMatch => PoolMatches(pool, item_affixes)

\* C10 amended: adding such an affix lowers neither satisfied nor
\* greaterSatisfied, and the pool still matches unless satisfied now
\* exceeds maxCount.
C10_MonotonicBelowMax ==
    AddedToMatch =>
        /\ satisfied(pool, item_affixes) >= satisfied(pool, Before)
        /\ greaterSatisfied(pool, item_affixes) >= greaterSatisfied(pool, Before)
        /\ \/ PoolMatches(pool, item_affixes)
           \/ satisfied(pool, item_affixes) > pool.maxCount

\* the added affix satisfied one more rule and the pool still matches
C10_Witness ==
    /\ AddedToMatch
    /\ satisfied(pool, item_affixes) > satisfied(pool, Before)
    /\ PoolMatches(pool, item_affixes)

----------------------------------------------------------------------------
(* get_with_retry.                                                          *)

\* every request so far came back with a status code other than 200
AllFailed == \A i \in 1..Len(responses) : ~responses[i].raised /\ responses[i].status_code # 200

\* C12: get_with_retry issues at most 5 requests; it returns the response of
\* the first request answered with 200 and issues none after it; it raises
\* ConnectionError exactly when 5 requests in a row were answered with
\* another status code; it never returns a response that is not a 200.
C12_GetWithRetry ==
    pc \in {"get_with_retry", "done"} =>
        /\ Len(responses) <= 5
        /\ \A i \in 1..(Len(responses) - 1) :
               ~responses[i].raised /\ responses[i].status_code # 200
        /\ outcome.how = "return" =>
               /\ outcome.value = <<responses[Len(responses)]>>
               /\ outcome.value[1].status_code = 200
        /\ (responses # << >> /\ ~responses[Len(responses)].raised
            /\ responses[Len(responses)].status_code = 200) => outcome.how = "return"
        /\ outcome = Raised("ConnectionError") <=> (Len(responses) = 5 /\ AllFailed)
        /\ pc = "done" <=> outcome # Running

\* 200 at the third request after a 404 and a 500
C12_Witness ==
    /\ pc = "done"
    /\ Len(responses) = 3
    /\ responses[1].status_code = 404 /\ responses[2].status_code = 500
    /\ outcome = Returned([raised |-> FALSE, status_code |-> 200])

----------------------------------------------------------------------------
(* retry_importer.                                                          *)

\* every call made so far raised
AllRaised == \A i \in 1..Len(calls) : calls[i].result.how = "raise"

\* C13: for every argument list and either value of inject_webdriver the
\* wrapper calls the function at most 5 times, stops at the first call that
\* returns and returns its result, returns None of its own only after 5
\* calls that each raised, and never propagates an exception of the
\* function.
C13_RetryImporter ==
    pc \in {"wrapper", "attempts", "done"} =>
        /\ Len(calls) <= 5
        /\ \A i \in 1..(Len(calls) - 1) : calls[i].result.how = "raise"
        /\ (calls # << >> /\ calls[Len(calls)].result.how = "return")
               => pc = "done" /\ outcome = calls[Len(calls)].result
        /\ (pc = "done" /\ outcome = Returned("None"))
               => \/ calls # << >> /\ calls[Len(calls)].result = Returned("None")
                  \/ Len(calls) = 5 /\ AllRaised
        /\ outcome.exc # "Exception"

\* C14: when the wrapper made the driver itself, every attempt gets that
\* driver and it is quit exactly once before the wrapper returns, also when
\* all 5 attempts raise and the wrapper returns None.
C14_DriverQuitOnce ==
    (pc \in {"attempts", "done"} /\ created # << >>) =>
        /\ \A i \in 1..Len(calls) : calls[i].driver = created
        /\ Len(quit_calls) <= 1
        /\ pc = "done" => quit_calls = created

----------------------------------------------------------------------------
(* Satisfiable pools.                                                       *)

\* some candidate affix list reaches minCount satisfied rules
Reachable(p) ==
    \E affixes \in SeqsUpTo(ItemAffixes, MaxRules) : satisfied(p, affixes) >= p.minCount

\* C15 as stated: every accepted pool has minCount at most the number of
\* its rules, so that some candidate list reaches minCount satisfied rules,
\* also when only minCount or only maxCount is supplied.
C15_PoolSatisfiable ==
    (PoolValidated /\ result.ok) =>
        /\ result.m.minCount <= Len(result.m.count)
        /\ Reachable(result.m)

\* C15 amended: an accepted pool for which minCount was not supplied has
\* minCount at most the number of its rules (that number when maxCount was
\* not supplied either, 0 when it was), and some candidate list reaches it;
\* a supplied minCount is kept as it is, checked against maxCount only.
C15_SatisfiableUnlessMinSupplied ==
    (PoolValidated /\ result.ok) =>
        /\ "minCount" \notin Keys(data) =>
               /\ result.m.minCount <= Len(result.m.count)
               /\ result.m.minCount = IF "maxCount" \in Keys(data) THEN 0
                                      ELSE Len(result.m.count)
               /\ Reachable(result.m)
        /\ "minCount" \in Keys(data) =>
               /\ result.m.minCount = ToNumber(Get(data, "minCount"))
               /\ result.m.minCount <= result.m.maxCount

\* only maxCount supplied, over two rules: minCount is 0
C15_Witness ==
    /\ PoolValidated /\ result.ok
    /\ "minCount" \notin Keys(data) /\ "maxCount" \in Keys(data)
    /\ Len(result.m.count) = 2
    /\ result.m.minCount = 0 /\ result.m.maxCount = 1

----------------------------------------------------------------------------
(* First match wins.                                                        *)

\* the rule at a (profile, rule) position matches the item
MatchesAt(pos) == ItemRuleMatches(RuleOf(profiles[pos.profile].Affixes[pos.rule]), snapshot)

\* all positions, and the order claimed: earlier profile first, then
\* earlier rule of the same profile
Positions ==
    UNION {{[profile |-> i, rule |-> j] : j \in 1..Len(profiles[i].Affixes)} :
              i \in 1..Len(profiles)}
Precedes(a, b) == a.profile < b.profile \/ (a.profile = b.profile /\ a.rule < b.rule)

\* C11: decide tries the profiles in the configured order and the rules of
\* a profile in document order; the decision names the first rule in that
\* order that matches, nothing after it is evaluated, and with no matching
\* rule the decision is not-kept without a rule identity.
C11_FirstMatchWins ==
    pc \in {"decide", "done"} =>
        /\ \A n \in 1..Len(evaluated) :
               /\ evaluated[n] \in Positions
               /\ \A m \in 1..(n - 1) : Precedes(evaluated[m], evaluated[n])
               /\ n < Len(evaluated) => ~MatchesAt(evaluated[n])
        /\ pc = "done" =>
               IF \E pos \in Positions : MatchesAt(pos)
               THEN LET first == CHOOSE pos \in Positions :
                                     /\ MatchesAt(pos)
                                     /\ \A q \in Positions : MatchesAt(q) => ~Precedes(q, pos)
                    IN  /\ decision = Kept(profiles[first.profile].name,
                                           RuleName(profiles[first.profile].Affixes[first.rule]))
                        /\ {evaluated[n] : n \in 1..Len(evaluated)}
                               = {q \in Positions : ~Precedes(first, q)}
               ELSE /\ decision = NotKept
                    /\ {evaluated[n] : n \in 1..Len(evaluated)} = Positions

\* two profiles with a matching rule each: P1's rule wins after a rule of
\* P1 that did not match, and no rule of P2 is evaluated
C11_Witness ==
    /\ pc = "done"
    /\ Len(profiles) = 2
    /\ decision.kept /\ decision.profileName = <<profiles[1].name>>
    /\ Len(evaluated) = 2
    /\ \E j \in 1..Len(profiles[2].Affixes) : MatchesAt([profile |-> 2, rule |-> j])

====
